---- MODULE Spec2Model ----
(***************************************************************************)
(* Model of the `npz-to-wct` command of wirecell/ls4gan/__main__.py.       *)
(*                                                                         *)
(* Conventions.                                                            *)
(*  - A Python str is a sequence of one-character strings, so that         *)
(*    isdigit, `in`, endswith, split and int() are computed, not assumed.  *)
(*  - A Python value whose type the code inspects is a tagged record:      *)
(*    [tag |-> "None"], [tag |-> "str", s |-> ...] or                      *)
(*    [tag |-> "ndarray", dtype |-> ..., v |-> ...].                       *)
(*  - A real number x is held as the integer x * Den (fixed point).  The   *)
(*    product (input + baseline) * scale is therefore held as a numerator  *)
(*    over Den * Den.                                                      *)
(*  - An N-d input array is [shape |-> <<..>>, data |-> [index -> sample]] *)
(*    with 0-based index tuples; a 2-d frame is a sequence of rows.        *)
(***************************************************************************)
EXTENDS Integers, Sequences, FiniteSets, TLC

\* ------------------------------------------------------------------ bounds
MaxRows == 3      \* largest axis length of an input array
MaxTicks == 1     \* tick-axis length of the input arrays
MaxArrays == 2    \* largest number of arrays in the input archive
Den == 2          \* fixed-point denominator of samples, baseline and scale

\* ------------------------------------------------------------ Python str
Digits == <<"0", "1", "2", "3", "4", "5", "6", "7", "8", "9">>

\* str.isdigit(): non-empty and every character a digit
IsDigit(s) == Len(s) > 0 /\ \A i \in 1..Len(s) : \E d \in 1..10 : Digits[d] = s[i]

\* sub in s
Contains(s, sub) ==
    \E i \in 1..(Len(s) - Len(sub) + 1) : SubSeq(s, i, i + Len(sub) - 1) = sub

\* s.endswith(suf)
EndsWith(s, suf) ==
    Len(s) >= Len(suf) /\ SubSeq(s, Len(s) - Len(suf) + 1, Len(s)) = suf

DigitVal(c) == (CHOOSE d \in 1..10 : Digits[d] = c) - 1

\* int(s) of a digit string
RECURSIVE ParseInt(_)
ParseInt(s) ==
    IF Len(s) = 0 THEN 0
    ELSE 10 * ParseInt(SubSeq(s, 1, Len(s) - 1)) + DigitVal(s[Len(s)])

\* str(n) of a non-negative int, as the f-string formats the event counter
RECURSIVE FormatInt(_)
FormatInt(n) ==
    IF n < 10 THEN <<Digits[n + 1]>>
    ELSE FormatInt(n \div 10) \o <<Digits[(n % 10) + 1]>>

\* index of the first / last occurrence of character c in s, 0 when absent
FindChar(s, c) ==
    IF \E i \in 1..Len(s) : s[i] = c
    THEN CHOOSE i \in 1..Len(s) : s[i] = c /\ \A j \in 1..(i - 1) : s[j] # c
    ELSE 0

RFindChar(s, c) ==
    IF \E i \in 1..Len(s) : s[i] = c
    THEN CHOOSE i \in 1..Len(s) : s[i] = c /\ \A j \in (i + 1)..Len(s) : s[j] # c
    ELSE 0

\* s.split(c): the fields between the separators
RECURSIVE Split(_, _)
Split(s, c) ==
    LET i == FindChar(s, c)
    IN  IF i = 0 THEN <<s>>
        ELSE <<SubSeq(s, 1, i - 1)>> \o Split(SubSeq(s, i + 1, Len(s)), c)

\* s.split(c, 1): at most one split
Split1(s, c) ==
    LET i == FindChar(s, c)
    IN  IF i = 0 THEN <<s>> ELSE <<SubSeq(s, 1, i - 1), SubSeq(s, i + 1, Len(s))>>

\* string literals used by the command
S_npz == <<".", "n", "p", "z">>
S_npy == <<".", "n", "p", "y">>
S_npzcolon == <<".", "n", "p", "z", ":">>
S_frame == <<"f", "r", "a", "m", "e", "_">>
S_channels == <<"c", "h", "a", "n", "n", "e", "l", "s", "_">>
S_tickinfo == <<"t", "i", "c", "k", "i", "n", "f", "o", "_">>
S_halfus == <<"0", ".", "5", "*", "u", "s">>

\* ---------------------------------------------------- wirecell.util.unitify
\* One field of a unit expression: a plain number, or 0.5*us = 500 in the
\* toolkit's system of units (ns = 1).
UnitifyField(f) == IF IsDigit(f) THEN ParseInt(f) ELSE IF f = S_halfus THEN 500 ELSE 0

\* unitify("a,b,c"): the list of the values of the comma-separated fields
Unitify(s) ==
    LET fields == Split(s, ",")
    IN  [i \in 1..Len(fields) |-> UnitifyField(fields[i])]

\* ---------------------------------------------------------------- arrays
\* index tuples of an array of the given shape (2-d and 3-d arrays)
Indices(shape) ==
    IF Len(shape) = 2
    THEN {<<i, j>> : i \in 0..(shape[1] - 1), j \in 0..(shape[2] - 1)}
    ELSE {<<i, j, k>> : i \in 0..(shape[1] - 1), j \in 0..(shape[2] - 1),
                        k \in 0..(shape[3] - 1)}

Reverse(t) == [i \in 1..Len(t) |-> t[Len(t) + 1 - i]]

\* arr.T: the axes in reverse order
Transpose(arr) ==
    LET sh == Reverse(arr.shape)
    IN  [shape |-> sh, data |-> [ix \in Indices(sh) |-> arr.data[Reverse(ix)]]]

\* Python slice b:e on an axis of length n: the clamped start and stop
SliceBound(x, n) ==
    IF x < 0 THEN (IF x + n < 0 THEN 0 ELSE x + n)
    ELSE (IF x > n THEN n ELSE x)

SliceLen_ShortByOne(b, e, n) ==
    LET d == SliceBound(e, n) - 1 - SliceBound(b, n) IN IF d > 0 THEN d ELSE 0

SliceLen(b, e, n) ==
    LET d == SliceBound(e, n) - SliceBound(b, n) IN IF d > 0 THEN d ELSE 0

\* arr[b:e, :, p]: rows b..e-1 of the plane-p slice, each row over the ticks
PlaneSlice(arr, b, e, p) ==
    LET n == arr.shape[1]
        start == SliceBound(b, n)
    IN  [r \in 1..SliceLen(b, e, n) |->
            [t \in 1..arr.shape[2] |-> arr.data[<<start + r - 1, t - 1, p>>]]]

\* numpy.vstack((a, b, c))
VStack(a, b, c) == a \o b \o c

\* line 89: the three range-selected plane slices, stacked in plane order
StackPlanes(arr, ranges) ==
    VStack(PlaneSlice(arr, ranges[1], ranges[2], 0),
           PlaneSlice(arr, ranges[3], ranges[4], 1),
           PlaneSlice(arr, ranges[5], ranges[6], 2))

RangeList_FromNext(a, b) == [i \in 1..(IF b > a THEN b - a ELSE 0) |-> a + i]

\* list(range(a, b))
RangeList(a, b) == [i \in 1..(IF b > a THEN b - a ELSE 0) |-> a + i - 1]

\* ------------------------------------------------------- rescale and cast
I2Min == -(2 ^ 15)
I2Max == 2 ^ 15 - 1

\* what a float -> int16 cast may leave for a value outside the int16 range
OverflowOutcomes == {"wrap", "zero", "min"}

Rescale_ScaleFirst(x, b, s) == x * s + b * Den

\* (input + baseline) * scale, as a numerator over Den * Den
Rescale(x, b, s) == (x + b) * s

\* float -> integer conversion drops the fractional part (towards zero)
TruncDiv(n, d) == IF n >= 0 THEN n \div d ELSE -((-n) \div d)

\* numpy.array(value, dtype): "f4" keeps the value (numerator over Den*Den),
\* "i2" truncates it to an integer
Cast(q, dtype, ovf) ==
    IF dtype = "f4" THEN q
    ELSE LET t == TruncDiv(q, Den * Den)
         IN  IF t >= I2Min /\ t <= I2Max THEN t
             ELSE CASE ovf = "wrap" -> ((t - I2Min) % (2 ^ 16)) + I2Min
                    [] ovf = "zero" -> 0
                    [] OTHER -> I2Min

\* line 119: numpy.array((arr + baseline) * scale, dtype=dtype)
RescaleFrame(frame, b, s, dtype, ovf) ==
    [r \in 1..Len(frame) |->
        [t \in 1..Len(frame[r]) |-> Cast(Rescale(frame[r][t], b, s), dtype, ovf)]]

\* ------------------------------------------------------------ filesystem
\* fs = [dirs |-> set of directory paths, files |-> [path -> content]].
\* The empty path names nothing: os.path.exists("") is False.
Exists(f, p) == p \in f.dirs \/ p \in DOMAIN f.files

RECURSIVE RStripSlash(_)
RStripSlash(p) ==
    IF Len(p) > 0 /\ p[Len(p)] = "/" THEN RStripSlash(SubSeq(p, 1, Len(p) - 1)) ELSE p

\* os.path.dirname(p): everything before the last "/", trailing slashes
\* dropped unless the head is the root; "" when p has no "/"
Dirname(p) ==
    LET head == SubSeq(p, 1, RFindChar(p, "/"))
    IN  IF head # <<>> /\ (\E i \in 1..Len(head) : head[i] # "/")
        THEN RStripSlash(head) ELSE head

\* os.makedirs(p): p and every missing ancestor are created; the empty path
\* cannot be created
Makedirs(f, p) ==
    IF p = <<>> THEN [err |-> "FileNotFoundError", fs |-> f]
    ELSE [err |-> "none",
          fs |-> [f EXCEPT !.dirs = @ \cup {p}
                      \cup {SubSeq(p, 1, i - 1) : i \in {j \in 2..Len(p) : p[j] = "/"}}]]

\* numpy.savez / numpy.savez_compressed (path, **entries)
Savez(f, path, entries, compressed) ==
    LET content == [kind |-> "npz", compressed |-> compressed, entries |-> entries]
    IN  [f EXCEPT !.files = [q \in (DOMAIN @) \cup {path} |->
                                IF q = path THEN content ELSE @[q]]]

\* numpy.load(path)
NumpyLoad(f, path) ==
    IF path \in DOMAIN f.files
    THEN [err |-> "none", val |-> f.files[path]]
    ELSE [err |-> "FileNotFoundError", val |-> <<>>]

\* ---------------------------------------------------------- OrderedDict
HasKey(d, k) == \E i \in 1..Len(d) : d[i].key = k

\* d[k]
DictGet(d, k) == d[CHOOSE i \in 1..Len(d) : d[i].key = k].val

\* d[k] = v: a new key goes last, an existing key keeps its place
DictSet(d, k, v) ==
    IF HasKey(d, k)
    THEN [i \in 1..Len(d) |-> IF d[i].key = k THEN [key |-> k, val |-> v] ELSE d[i]]
    ELSE Append(d, [key |-> k, val |-> v])

\* ---------------------------------------------------- channel resolution
PyNone == [tag |-> "None"]
PyStr(s) == [tag |-> "str", s |-> s]

Ok(v) == [err |-> "none", val |-> v]
Raise(kind) == [err |-> kind, val |-> <<>>]

\* lines 95-112: the if/elif chain on `channels`.  After the first array
\* `channels` holds the ndarray of line 114, which has no isdigit().
ResolveChannels(chans, nchans, f) ==
    IF chans.tag = "None" THEN Ok(RangeList(0, nchans))
    ELSE IF chans.tag # "str" THEN Raise("AttributeError")
    ELSE IF IsDigit(chans.s)
         THEN LET ch0 == ParseInt(chans.s) IN Ok(RangeList(ch0, ch0 + nchans))
    ELSE IF Contains(chans.s, <<",">>)
         THEN LET l == Unitify(chans.s)
              IN  IF Len(l) # nchans THEN Raise("BadParameter") ELSE Ok(l)
    ELSE IF EndsWith(chans.s, S_npy)
         THEN LET ld == NumpyLoad(f, chans.s)
              IN  IF ld.err # "none" THEN Raise(ld.err) ELSE Ok(ld.val.data)
    ELSE IF Contains(chans.s, S_npzcolon)
         THEN LET parts == Split1(chans.s, ":")
                  ld == NumpyLoad(f, parts[1])
              IN  IF ld.err # "none" THEN Raise(ld.err)
                  ELSE IF ~HasKey(ld.val.entries, parts[2]) THEN Raise("KeyError")
                  ELSE Ok(DictGet(ld.val.entries, parts[2]))
    ELSE Raise("BadParameter")

\* line 114: numpy.array(channels, 'i4')
AsI4Array(v) == [tag |-> "ndarray", dtype |-> "i4", v |-> v]

\* line 116: f'{name}_{event}'
Label(name, ev) == name \o <<"_">> \o FormatInt(ev)

\* lines 82-121: one pass of the loop body over the array arr0.  The result
\* is the error raised (or "none") and the new values of the locals.
Iteration(c, arr0, chans, ev, out, ti, f, ovf) ==
    LET arr == IF c.transpose THEN Transpose(arr0) ELSE arr0
        fail(kind) == [err |-> kind, channels |-> chans, event |-> ev, out |-> out]
    IN  IF Len(arr.shape) # 3 THEN fail("BadParameter")
        ELSE IF arr.shape[3] < 3 THEN fail("IndexError")
        ELSE
          LET stacked == StackPlanes(arr, c.ranges)
              nchans == Len(stacked)
              res == ResolveChannels(chans, nchans, f)
          IN  IF res.err # "none" THEN fail(res.err)
              ELSE
                LET ch == AsI4Array(res.val)
                    label == Label(c.name, ev)
                    frame == [dtype |-> c.dtype,
                              rows |-> RescaleFrame(stacked, c.baseline, c.scale,
                                                    c.dtype, ovf)]
                    o1 == DictSet(out, S_frame \o label, frame)
                    o2 == DictSet(o1, S_channels \o label, ch)
                    o3 == DictSet(o2, S_tickinfo \o label, ti)
                IN  [err |-> "none", channels |-> ch, event |-> ev + 1, out |-> o3]

\* ----------------------------------------------------------------- inputs
\* sample at index ix of an input array: distinct per index, offset by seed
Fill(seed, ix) ==
    LET w == MaxRows + MaxTicks
    IN  IF Len(ix) = 2 THEN seed + ix[2] + w * ix[1]
        ELSE seed + ix[3] + w * (ix[2] + w * ix[1])

MkArray(shape, seed) ==
    [shape |-> shape, data |-> [ix \in Indices(shape) |-> Fill(seed, ix)]]

\* (rows, ticks, planes) arrays, also with a short plane axis, and a 2-d array
Shapes ==
    {<<r, MaxTicks, p>> : r \in {MaxRows - 1, MaxRows}, p \in {2, 3}}
        \cup {<<MaxRows, MaxTicks>>}

SeqsUpTo(S, n) == UNION {[1..k -> S] : k \in 0..n}

\* contents of the input archive: its arrays in archive order
Archives(seeds) ==
    SeqsUpTo({MkArray(sh, sd) : sh \in Shapes, sd \in seeds}, MaxArrays)

\* -r: in range, in range (wide), end past the rows, negative begin,
\* begin after end, negative end
RangeSpecs ==
    { <<0, 1, 1, 2, 0, 1>>,
      <<0, 2, 0, 2, 0, 2>>,
      <<0, MaxRows, 0, MaxRows, 0, MaxRows + 1>>,
      <<-1, 2, 0, 1, 1, 1>>,
      <<2, 1, 0, 1, 0, 1>>,
      <<0, -1, 0, 1, 0, 0>> }

\* -c: unspecified, "2", "1,2,3", "4,5", "a.npy", "b.npy", "c.npz:k",
\* "m.npy" (no such file), "x"
ChannelSpecs ==
    { PyNone,
      PyStr(<<"2">>),
      PyStr(<<"1", ",", "2", ",", "3">>),
      PyStr(<<"4", ",", "5">>),
      PyStr(<<"a", ".", "n", "p", "y">>),
      PyStr(<<"b", ".", "n", "p", "y">>),
      PyStr(<<"c", ".", "n", "p", "z", ":", "k">>),
      PyStr(<<"m", ".", "n", "p", "y">>),
      PyStr(<<"x">>) }

\* -o: "o.npz", "d/o.npz" (d exists), "n/s/o.npz", "n/o.txt", "d/o.txt"
Out_bare == <<"o", ".", "n", "p", "z">>
Out_dir == <<"d", "/", "o", ".", "n", "p", "z">>
Out_new == <<"n", "/", "s", "/", "o", ".", "n", "p", "z">>
Out_newtxt == <<"n", "/", "o", ".", "t", "x", "t">>
Out_dirtxt == <<"d", "/", "o", ".", "t", "x", "t">>
Outputs == {Out_bare, Out_dir, Out_new, Out_newtxt, Out_dirtxt}

\* -n / -e
NameEvents == {[name |-> <<>>, event |-> 0], [name |-> <<"e", "v", "t">>, event |-> 5]}

\* default of -t: "0,0.5*us,0"
TinfoDefault == <<"0", ",">> \o S_halfus \o <<",", "0">>

\* the filesystem before the run: directory d and three channel files
InitFS ==
    [dirs |-> {<<"d">>},
     files |->
        (<<"a", ".", "n", "p", "y">> :> [kind |-> "npy", data |-> <<7, 8, 9>>])
     @@ (<<"b", ".", "n", "p", "y">> :> [kind |-> "npy", data |-> <<7, 8>>])
     @@ (<<"c", ".", "n", "p", "z">> :>
            [kind |-> "npz", compressed |-> FALSE,
             entries |-> <<[key |-> <<"k">>, val |-> <<4, 5, 6>>]>>])]

Config(tr, o, ne, r, b, s, dt, ch, z, npz) ==
    [transpose |-> tr, output |-> o, name |-> ne.name, event |-> ne.event,
     ranges |-> r, tinfo |-> TinfoDefault, baseline |-> b, scale |-> s,
     dtype |-> dt, channels |-> ch, compress |-> z, npz |-> npz]

\* runs that vary the slicing and the channel specification
ConfigsSlicing ==
    {Config(tr, Out_dir, ne, r, 0, Den, "i2", ch, TRUE, npz) :
        tr \in BOOLEAN, ne \in NameEvents, r \in RangeSpecs,
        ch \in ChannelSpecs, npz \in Archives({0})}

\* runs that vary the output path and the compress flag
ConfigsOutput ==
    {Config(FALSE, o, ne, <<0, 1, 1, 2, 0, 1>>, 0, Den, "i2", PyNone, z, npz) :
        o \in Outputs, ne \in NameEvents, z \in BOOLEAN, npz \in Archives({0})}

\* runs that vary the samples, the baseline, the scale and the sample type
\* (baseline and scale times Den; the last scale overflows int16)
ConfigsNumeric ==
    {Config(FALSE, Out_dir, ne, <<0, 2, 0, 2, 0, 2>>, b, s, dt, PyNone, TRUE,
            <<MkArray(<<MaxRows, MaxTicks, 3>>, sd)>>) :
        ne \in NameEvents, b \in {0, 1, -3, Den}, s \in {Den, 1, 3, -1, Den * (2 ^ 15)},
        dt \in {"i2", "f4"}, sd \in {-7, 0, 2}}

Configs == ConfigsSlicing \cup ConfigsOutput \cup ConfigsNumeric

\* ------------------------------------------------------------------ state
VARIABLES
    cfg,         \* the command's arguments and the contents of npzfile
    tinfo,       \* line 74
    channels,    \* the local `channels`, rebound at line 114
    event,       \* the local `event`
    idx,         \* number of arrays the loop has finished
    out_arrays,  \* the OrderedDict of line 78
    fs,          \* the filesystem
    pc,          \* "loop", "done" or "failed"
    err          \* the exception that ended the run and the array it came from

vars == <<cfg, tinfo, channels, event, idx, out_arrays, fs, pc, err>>

NoError == [kind |-> "none", at |-> 0]

\* lines 72-80
Init ==
    /\ cfg \in Configs
    /\ tinfo = Unitify(cfg.tinfo)
    /\ channels = cfg.channels
    /\ event = cfg.event
    /\ idx = 0
    /\ out_arrays = <<>>
    /\ fs = InitFS
    /\ pc = "loop"
    /\ err = NoError

LoopDone_AfterFailure(p, i, n) == (p = "loop" /\ i = n) \/ p = "failed"

\* line 81 falls through to line 123 when every array was processed and no
\* exception is propagating
LoopDone(p, i, n) == p = "loop" /\ i = n

\* lines 81-121: the loop body for the next array of the archive
ProcessArray ==
    /\ pc = "loop"
    /\ idx < Len(cfg.npz)
    /\ \E ovf \in OverflowOutcomes :
         LET r == Iteration(cfg, cfg.npz[idx + 1], channels, event, out_arrays,
                            tinfo, fs, ovf)
         IN  /\ channels' = r.channels
             /\ event' = r.event
             /\ out_arrays' = r.out
             /\ IF r.err = "none"
                THEN idx' = idx + 1 /\ UNCHANGED <<pc, err>>
                ELSE /\ pc' = "failed"
                     /\ err' = [kind |-> r.err, at |-> idx + 1]
                     /\ UNCHANGED idx
    /\ UNCHANGED <<cfg, tinfo, fs>>

\* lines 123-132
WriteOutput ==
    /\ LoopDone(pc, idx, Len(cfg.npz))
    /\ LET out_dir == Dirname(cfg.output)
           mk == IF ~Exists(fs, out_dir) THEN Makedirs(fs, out_dir)
                 ELSE [err |-> "none", fs |-> fs]
       IN  IF mk.err # "none"
           THEN /\ fs' = mk.fs
                /\ pc' = "failed"
                /\ err' = [kind |-> mk.err, at |-> 0]
           ELSE IF EndsWith(cfg.output, S_npz)
           THEN /\ fs' = Savez(mk.fs, cfg.output, out_arrays, cfg.compress)
                /\ pc' = "done"
                /\ UNCHANGED err
           ELSE /\ fs' = mk.fs
                /\ pc' = "failed"
                /\ err' = [kind |-> "BadParameter", at |-> 0]
    /\ UNCHANGED <<cfg, tinfo, channels, event, idx, out_arrays>>

Next == ProcessArray \/ WriteOutput

Spec == Init /\ [][Next]_vars

\* ------------------------------------------------- vocabulary of the claims
Terminated == pc \in {"done", "failed"}

\* the arrays whose three entries are in out_arrays, in processing order
Stored == 1..(Len(out_arrays) \div 3)
Frame(k) == out_arrays[3 * k - 2].val
Chans(k) == out_arrays[3 * k - 1].val

\* the k-th array of the archive as the loop body sees it after line 85
InArr(k) == IF cfg.transpose THEN Transpose(cfg.npz[k]) ELSE cfg.npz[k]

\* the k-th array passes lines 86-89
Valid(k) == Len(InArr(k).shape) = 3 /\ InArr(k).shape[3] >= 3

\* the loop body has run on the k-th array (to its end or to an exception)
Attempted(k) == idx >= k \/ err.at = k

Width(p) == cfg.ranges[2 * p + 2] - cfg.ranges[2 * p + 1]
SumWidths == Width(0) + Width(1) + Width(2)

\* every (begin, end) pair lies within an axis of n rows
InRange(n) ==
    \A p \in 0..2 :
        /\ 0 <= cfg.ranges[2 * p + 1]
        /\ cfg.ranges[2 * p + 1] <= cfg.ranges[2 * p + 2]
        /\ cfg.ranges[2 * p + 2] <= n

\* rows of an n-row axis that the slice begin:end selects, a negative index
\* counting from the end
Selected(p, n) ==
    LET norm(x) == IF x < 0 THEN x + n ELSE x
    IN  {i \in 0..(n - 1) :
            norm(cfg.ranges[2 * p + 1]) <= i /\ i < norm(cfg.ranges[2 * p + 2])}

Abs(x) == IF x < 0 THEN -x ELSE x

C2_LengthsAgree == \A k \in Stored : Len(Chans(k).v) = Len(Frame(k).rows)

\* the keys the i-th processed array is to be stored under, i = 0..n-1
ExpectedKeys(n) ==
    [j \in 1..(3 * n) |->
        LET lab == Label(cfg.name, cfg.event + ((j - 1) \div 3))
        IN  CASE j % 3 = 1 -> S_frame \o lab
              [] j % 3 = 2 -> S_channels \o lab
              [] OTHER -> S_tickinfo \o lab]

\* C3: a run over n >= 1 three-dimensional arrays ends with an archive of
\* exactly the 3n entries frame_, channels_, tickinfo_<name>_<e0+i>, and
\* the event counter at e0 + n.
C3_AllArraysWritten ==
    ( /\ Terminated
      /\ Len(cfg.npz) >= 1
      /\ \A k \in 1..Len(cfg.npz) : Valid(k)
      /\ cfg.channels = PyNone
      /\ cfg.output = Out_dir )
    => /\ pc = "done"
       /\ event = cfg.event + Len(cfg.npz)
       /\ cfg.output \in DOMAIN fs.files
       /\ LET e == fs.files[cfg.output].entries
          IN  /\ Len(e) = 3 * Len(cfg.npz)
              /\ \A j \in 1..Len(e) : e[j].key = ExpectedKeys(Len(cfg.npz))[j]

\* C4: with no channel specification the stored IDs of an array with N
\* stacked rows are 0..N-1, with a bare integer K they are K..K+N-1, ascending.
C4_SequentialIds ==
    \A k \in Stored :
        LET n == Len(Frame(k).rows)
            ids == Chans(k).v
        IN  /\ cfg.channels.tag = "None" =>
                 Len(ids) = n /\ \A i \in 1..n : ids[i] = i - 1
            /\ (cfg.channels.tag = "str" /\ IsDigit(cfg.channels.s)) =>
                 Len(ids) = n /\ \A i \in 1..n : ids[i] = ParseInt(cfg.channels.s) + i - 1

C4_Witness ==
    \E k \in Stored :
        cfg.channels = PyStr(<<"2">>) /\ Chans(k).v = <<2, 3, 4>>

\* y is q / d with the fractional part dropped
IsTruncation(y, q, d) ==
    /\ Abs(q - y * d) < d
    /\ Abs(y * d) <= Abs(q)
    /\ (y >= 0 /\ q >= 0) \/ (y <= 0 /\ q <= 0)

\* C5: every stored sample is cast((input + baseline) * scale): the baseline
\* is added first, "f4" keeps the value and "i2" drops its fractional part,
\* for negative and positive values alike (values within the int16 range).
C5_LinearTransform ==
    \A k \in Stored :
        LET src == StackPlanes(InArr(k), cfg.ranges)
            rows == Frame(k).rows
            d == Den * Den
        IN  /\ Len(rows) = Len(src)
            /\ \A r \in 1..Len(rows) : \A t \in 1..Len(rows[r]) :
                 LET q == (src[r][t] + cfg.baseline) * cfg.scale
                     y == rows[r][t]
                 IN  IF Frame(k).dtype = "f4" THEN y = q
                     ELSE (q > (I2Min - 1) * d /\ q < (I2Max + 1) * d)
                            => IsTruncation(y, q, d)

C5_Witness ==
    \E k \in Stored :
        LET src == StackPlanes(InArr(k), cfg.ranges)
            rows == Frame(k).rows
            q(r) == (src[r][1] + cfg.baseline) * cfg.scale
        IN  /\ Frame(k).dtype = "i2" /\ cfg.baseline # 0 /\ cfg.scale # Den
            /\ \E r \in 1..Len(rows) :
                 q(r) < 0 /\ q(r) % (Den * Den) # 0 /\ rows[r][1] * Den * Den > q(r)
            /\ \E r \in 1..Len(rows) :
                 q(r) > 0 /\ q(r) % (Den * Den) # 0 /\ rows[r][1] * Den * Den < q(r)

IsCommaList(c) == c.tag = "str" /\ ~IsDigit(c.s) /\ Contains(c.s, <<",">>)

\* C6: when the comma list is not as long as the stacked frame of an array
\* has rows, the run fails on that array with a parameter error and the
\* filesystem holds no output.
C6_ListMismatchRejected ==
    \A k \in 1..Len(cfg.npz) :
        ( /\ IsCommaList(cfg.channels)
          /\ Attempted(k)
          /\ Valid(k)
          /\ Len(StackPlanes(InArr(k), cfg.ranges)) # Len(Split(cfg.channels.s, ",")) )
        => err = [kind |-> "BadParameter", at |-> k] /\ fs = InitFS

\* C7: a run over at least one array whose output path does not end in ".npz" fails, with a
\* parameter error when it got as far as the output, and leaves the
\* filesystem as it was: no file and no directory created.
C7_BadExtensionWritesNothing ==
    (Terminated /\ Len(cfg.npz) >= 1 /\ ~EndsWith(cfg.output, S_npz))
    => /\ pc = "failed"
       /\ err.at = 0 => err.kind = "BadParameter"
       /\ fs = InitFS

\* C8: an exception raised while processing the k-th array ends the run
\* with no archive written and no directory created, for every k.
C8_LoopFailureWritesNothing == err.at >= 1 => (pc = "failed" /\ fs = InitFS)

C8_Witness ==
    /\ err = [kind |-> "BadParameter", at |-> 2]
    /\ Len(out_arrays) = 3
    /\ cfg.output = Out_new
    /\ ~Exists(fs, Dirname(cfg.output))

\* C9: once the loop body has run on the second array of an archive, its
\* channel IDs are stored: the first array's list again for a comma list or
\* a loaded file, and IDs re-derived from its own row count when the
\* specification is absent or a bare integer.
C9_SecondArrayChannels ==
    (Len(cfg.npz) >= 2 /\ Attempted(2) /\ Valid(2))
    => /\ err.at # 2
       /\ Len(out_arrays) >= 6
       /\ LET n == Len(Frame(2).rows)
          IN  Chans(2).v =
                IF cfg.channels.tag = "None" THEN [i \in 1..n |-> i - 1]
                ELSE IF IsDigit(cfg.channels.s)
                     THEN [i \in 1..n |-> ParseInt(cfg.channels.s) + i - 1]
                ELSE Chans(1).v

\* C10: when every array (at least one) was processed and the output path
\* ends in ".npz",
\* the run ends with the directory of the path in place and the archive
\* written, also for a path with no directory component.
C10_ArchiveWritten ==
    (Terminated /\ Len(cfg.npz) >= 1 /\ err.at = 0 /\ EndsWith(cfg.output, S_npz))
    => /\ pc = "done"
       /\ Dirname(cfg.output) = <<>> \/ Dirname(cfg.output) \in fs.dirs
       /\ cfg.output \in DOMAIN fs.files
       /\ fs.files[cfg.output].entries = out_arrays

====
